---------------------------- MODULE Spec2Model ----------------------------
(***************************************************************************)
(* A model of Speech_check.py: the SpeechRecognitionApp object (backend    *)
(* registry, language table, last_transcription), its two recognition      *)
(* backends, transcribe_speech, create_download_file and main.             *)
(*                                                                         *)
(* Text is modelled by TLA+ strings, character for character as the source *)
(* writes it; f-strings are concatenations (\o).                           *)
(***************************************************************************)
EXTENDS Naturals, Sequences, FiniteSets, TLC

(***************************************************************************)
(* Bounds of the model.                                                    *)
(***************************************************************************)
\* Temporary files a caller of create_download_file may leave on disk.
MaxFiles == 1

\* The threads that call transcribe_speech on one object concurrently.
Threads == {"t1", "t2"}

(***************************************************************************)
(* Values.                                                                 *)
(***************************************************************************)
\* Python's None and a present value.
None == [is_none |-> TRUE, v |-> ""]
Some(x) == [is_none |-> FALSE, v |-> x]

\* No exception.
NoExc == [type |-> "", msg |-> ""]

\* A call that returned v, and a call that raised exception e.
Return(v) == [raised |-> FALSE, value |-> v, exc |-> NoExc]
Raise(e) == [raised |-> TRUE, value |-> "", exc |-> e]

\* s contains t as a substring (Python's  t in s).
Contains(s, t) ==
    \E i \in 1..(Len(s) - Len(t) + 1) : SubSeq(s, i, i + Len(t) - 1) = t

(***************************************************************************)
(* The environment: the microphone and the recognisers of the              *)
(* speech_recognition library.  An AudioData object is opaque to the       *)
(* program: all it can observe of a sample is how the recogniser answers   *)
(* it, so a sample is modelled by that answer: a transcript (type "text")  *)
(* or the exception the recogniser raises.                                 *)
(***************************************************************************)
Transcripts == {"hello world", ""}
Diagnostics == {"recognition connection failed: timed out",
                "missing PocketSphinx module"}

AudioSamples ==
    {[type |-> "text", msg |-> t] : t \in Transcripts}
    \cup {[type |-> "UnknownValueError", msg |-> ""]}
    \cup {[type |-> "RequestError", msg |-> d] : d \in Diagnostics}
    \cup {[type |-> "TimeoutError", msg |-> "The read operation timed out"]}

\* What happens on the way to a recognition: sr.Microphone() fails (before
\* the try block), listen() raises, or listen() returns a sample.
CaptureOutcomes ==
    {[stage |-> "Microphone", type |-> "OSError",
      msg |-> "No Default Input Device Available"],
     [stage |-> "listen", type |-> "WaitTimeoutError",
      msg |-> "listening timed out while waiting for phrase to start"],
     [stage |-> "listen", type |-> "OSError", msg |-> "Stream closed"]}
    \cup {[stage |-> "audio", type |-> a.type, msg |-> a.msg] : a \in AudioSamples}

\* The exception a capture outcome or a sample stands for.
Exc(c) == [type |-> c.type, msg |-> c.msg]

(***************************************************************************)
(* SpeechRecognitionApp.__init__                                           *)
(***************************************************************************)
InitialApis ==
    [k \in {"Google Speech Recognition", "Sphinx (Offline)"} |->
        IF k = "Google Speech Recognition" THEN "recognize_with_google"
                                            ELSE "recognize_with_sphinx"]

InitialLanguages ==
    [k \in {"English (US)", "Spanish", "French", "German", "Chinese (Mandarin)"} |->
        CASE k = "English (US)" -> "en-US"
          [] k = "Spanish" -> "es-ES"
          [] k = "French" -> "fr-FR"
          [] k = "German" -> "de-DE"
          [] k = "Chinese (Mandarin)" -> "zh-CN"]

NewApp ==
    [recognition_apis |-> InitialApis,
     languages |-> InitialLanguages,
     last_transcription |-> ""]

\* The functions a registry entry may name, and the backend ids and language
\* choices callers pass: the registered ones and one that is not registered.
BackendFunctions == {"recognize_with_google", "recognize_with_sphinx"}
ApiChoices == DOMAIN InitialApis \cup {"Whisper"}
LanguageChoices == {"Spanish", "Klingon"}

(***************************************************************************)
(* The two backends.                                                       *)
(***************************************************************************)
\* The backend answering from self.last_transcription when it holds a text.
recognize_with_google_cached(self, audio, language) ==
    IF self.last_transcription # "" THEN Return(self.last_transcription)
    ELSE IF audio.type = "text" THEN Return(audio.msg)
    ELSE IF audio.type = "UnknownValueError"
         THEN Return("Google Speech Recognition could not understand the audio")
    ELSE IF audio.type = "RequestError"
         THEN Return("Could not request results from Google Speech Recognition service; "
                     \o audio.msg)
    ELSE Raise(Exc(audio))

\* The backend with the RequestError text lacking its diagnostic.
recognize_with_google_nodiag(self, audio, language) ==
    IF audio.type = "text" THEN Return(audio.msg)
    ELSE IF audio.type = "UnknownValueError"
         THEN Return("Google Speech Recognition could not understand the audio")
    ELSE IF audio.type = "RequestError"
         THEN Return("Could not request results from Google Speech Recognition service")
    ELSE Raise(Exc(audio))

\* Lines 26-33.  language reaches only the recogniser.
recognize_with_google(self, audio, language) ==
    IF audio.type = "text" THEN Return(audio.msg)
    ELSE IF audio.type = "UnknownValueError"
         THEN Return("Google Speech Recognition could not understand the audio")
    ELSE IF audio.type = "RequestError"
         THEN Return("Could not request results from Google Speech Recognition service; "
                     \o audio.msg)
    ELSE Raise(Exc(audio))

\* The backend with the Google text for UnknownValueError.
recognize_with_sphinx_copied(self, audio, language) ==
    IF audio.type = "text" THEN Return(audio.msg)
    ELSE IF audio.type = "UnknownValueError"
         THEN Return("Google Speech Recognition could not understand the audio")
    ELSE IF audio.type = "RequestError"
         THEN Return("Sphinx error: " \o audio.msg)
    ELSE Raise(Exc(audio))

\* The backend without its except sr.RequestError clause.
recognize_with_sphinx_uncaught(self, audio, language) ==
    IF audio.type = "text" THEN Return(audio.msg)
    ELSE IF audio.type = "UnknownValueError"
         THEN Return("Sphinx could not understand the audio")
    ELSE Raise(Exc(audio))

\* Lines 35-42.  language is not passed on to recognize_sphinx.
recognize_with_sphinx(self, audio, language) ==
    IF audio.type = "text" THEN Return(audio.msg)
    ELSE IF audio.type = "UnknownValueError"
         THEN Return("Sphinx could not understand the audio")
    ELSE IF audio.type = "RequestError"
         THEN Return("Sphinx error: " \o audio.msg)
    ELSE Raise(Exc(audio))

\* recognition_method(audio, language): the call of the resolved function.
invoke(self, fn, audio, language) ==
    IF fn = "recognize_with_google" THEN recognize_with_google(self, audio, language)
    ELSE recognize_with_sphinx(self, audio, language)

(***************************************************************************)
(* transcribe_speech, line by line.                                        *)
(***************************************************************************)
\* self.recognition_apis[api_choice]: no default, KeyError on a miss.
resolve_strict(self, api_choice) ==
    IF api_choice \in DOMAIN self.recognition_apis
    THEN [raised |-> FALSE, fn |-> self.recognition_apis[api_choice], exc |-> NoExc]
    ELSE [raised |-> TRUE, fn |-> "",
          exc |-> [type |-> "KeyError", msg |-> "'" \o api_choice \o "'"]]

\* A lookup in the registry as it was at construction.
resolve_snapshot(self, api_choice) ==
    [raised |-> FALSE,
     fn |-> IF api_choice \in DOMAIN InitialApis THEN InitialApis[api_choice]
            ELSE "recognize_with_google",
     exc |-> NoExc]

\* self.recognition_apis.get(api_choice, self.recognize_with_google)
resolve(self, api_choice) ==
    [raised |-> FALSE,
     fn |-> IF api_choice \in DOMAIN self.recognition_apis
            THEN self.recognition_apis[api_choice]
            ELSE "recognize_with_google",
     exc |-> NoExc]

\* self.languages.get(language_choice, "en-US")
language_tag(self, language_choice) ==
    IF language_choice \in DOMAIN self.languages
    THEN self.languages[language_choice]
    ELSE "en-US"

\* self.last_transcription = text
store(self, text) == [self EXCEPT !.last_transcription = text]

\* return self.last_transcription
return_text_shared(self, text) == self.last_transcription

\* return text
return_text(self, text) == text

\* The handlers without the catch-all.
except_handlers_narrow(e) ==
    IF e.type = "WaitTimeoutError"
    THEN Return("No speech detected. Time limit exceeded.")
    ELSE Raise(e)

\* except sr.WaitTimeoutError / except Exception as e
except_handlers(e) ==
    IF e.type = "WaitTimeoutError"
    THEN Return("No speech detected. Time limit exceeded.")
    ELSE Return("An unexpected error occurred: " \o e.msg)

\* The whole call: the object after it, what it returns or raises, the
\* backend function it invoked (if any), the language tag it passed and what
\* that backend function itself returned or raised.
transcribe_speech(self, api_choice, language_choice, capture) ==
    LET r == resolve(self, api_choice)
        tag == language_tag(self, language_choice)
        b == invoke(self, r.fn, capture, tag)
        stored == store(self, b.value)
    IN  IF capture.stage = "Microphone"
        THEN [self |-> self, result |-> Raise(Exc(capture)),
              invoked |-> "", language |-> "", backend |-> Return("")]
        ELSE IF capture.stage = "listen"
        THEN [self |-> self, result |-> except_handlers(Exc(capture)),
              invoked |-> "", language |-> "", backend |-> Return("")]
        ELSE IF r.raised
        THEN [self |-> self, result |-> except_handlers(r.exc),
              invoked |-> "", language |-> "", backend |-> Return("")]
        ELSE IF b.raised
        THEN [self |-> self, result |-> except_handlers(b.exc),
              invoked |-> r.fn, language |-> tag, backend |-> b]
        ELSE [self |-> stored, result |-> Return(return_text(stored, b.value)),
              invoked |-> r.fn, language |-> tag, backend |-> b]

(***************************************************************************)
(* create_download_file.  A path is modelled by a number: the k-th name    *)
(* NamedTemporaryFile may hand out; 0 stands for None.  The name it hands  *)
(* out is one no file has.                                                 *)
(***************************************************************************)
Paths == 1..(MaxFiles + 1)

FreshPath(files) ==
    CHOOSE p \in Paths :
        /\ \A f \in files : f.path # p
        /\ \A q \in Paths : (\A f \in files : f.path # q) => p <= q

\* The check without the comparison with the sentinel.
is_unsavable_empty_only(text) == text = ""

\* not text or text == "No speech detected. Time limit exceeded."
is_unsavable(text) ==
    text = "" \/ text = "No speech detected. Time limit exceeded."

\* The path returned and the files on disk after the call.
create_download_file(text, files) ==
    IF is_unsavable(text)
    THEN [path |-> 0, files |-> files, warning |-> TRUE]
    ELSE LET p == FreshPath(files)
         IN  [path |-> p,
              files |-> files \cup {[path |-> p, content |-> text]},
              warning |-> FALSE]

(***************************************************************************)
(* State.                                                                  *)
(*   app      the SpeechRecognitionApp object                              *)
(*   fs       the temporary files on disk                                  *)
(*   op       the last operation: its arguments and everything it did      *)
(*            (before: last_transcription when transcribe_speech began;     *)
(*            fn: the function a register call was given)                   *)
(*   lastreg  per backend id, the function last registered for it          *)
(*   th       the threads inside transcribe_speech and their locals        *)
(***************************************************************************)
VARIABLES app, fs, op, lastreg, th

vars == <<app, fs, op, lastreg, th>>

NoCapture == [stage |-> "", type |-> "", msg |-> ""]

NoOp ==
    [name |-> "init", api_choice |-> "", language_choice |-> "",
     capture |-> NoCapture, before |-> "", invoked |-> "", language |-> "",
     backend |-> Return(""), result |-> Return(""),
     fn |-> "", text |-> "", path |-> 0, warning |-> FALSE,
     displayed |-> None, saved |-> None, download |-> None]

IdleThread ==
    [pc |-> "idle", api_choice |-> "", language_choice |-> "",
     capture |-> NoCapture, fn |-> "", text |-> "", ret |-> Return("")]

\* The texts a caller hands to create_download_file.
SaveTexts ==
    {"", "No speech detected. Time limit exceeded.", "hello world",
     "Sphinx could not understand the audio"}

Init ==
    /\ app = NewApp
    /\ fs = {}
    /\ op = NoOp
    /\ lastreg = [k \in ApiChoices |-> ""]
    /\ th = [t \in Threads |-> IdleThread]

(***************************************************************************)
(* The operations, each one whole call.                                    *)
(***************************************************************************)
TranscribeSpeech ==
    \E api_choice \in ApiChoices, language_choice \in LanguageChoices,
       capture \in CaptureOutcomes :
    LET t == transcribe_speech(app, api_choice, language_choice, capture)
    IN  /\ app' = t.self
        /\ op' = [NoOp EXCEPT !.name = "transcribe_speech",
                              !.api_choice = api_choice,
                              !.language_choice = language_choice,
                              !.capture = capture,
                              !.before = app.last_transcription,
                              !.invoked = t.invoked,
                              !.language = t.language,
                              !.backend = t.backend,
                              !.result = t.result]
        /\ UNCHANGED <<fs, lastreg, th>>

CreateDownloadFile ==
    \E text \in SaveTexts :
        LET c == create_download_file(text, fs)
        IN  /\ Cardinality(c.files) <= MaxFiles
            /\ fs' = c.files
            /\ op' = [NoOp EXCEPT !.name = "create_download_file",
                                  !.text = text,
                                  !.path = c.path,
                                  !.warning = c.warning,
                                  !.saved = IF c.path = 0 THEN None ELSE Some(text)]
            /\ UNCHANGED <<app, lastreg, th>>

\* One run of main with the button pressed.  timeout and phrase_time_limit
\* only reach listen(), whose outcome is the capture.
Main ==
    \E a \in DOMAIN NewApp.recognition_apis,
       l \in LanguageChoices \cap DOMAIN NewApp.languages,
       c \in CaptureOutcomes :
        LET t == transcribe_speech(NewApp, a, l, c)
            text == t.result.value
            d == create_download_file(text, fs)
            file == CHOOSE f \in d.files : f.path = d.path
            called == [NoOp EXCEPT !.name = "main",
                                   !.api_choice = a,
                                   !.language_choice = l,
                                   !.capture = c,
                                   !.invoked = t.invoked,
                                   !.language = t.language,
                                   !.backend = t.backend,
                                   !.result = t.result]
        IN  /\ app' = t.self
            /\ IF t.result.raised
               THEN /\ op' = called
                    /\ fs' = fs
               ELSE IF d.path = 0
               THEN /\ op' = [called EXCEPT !.displayed = Some(text),
                                            !.text = text,
                                            !.warning = d.warning]
                    /\ fs' = d.files
               ELSE /\ op' = [called EXCEPT !.displayed = Some(text),
                                            !.text = text,
                                            !.path = d.path,
                                            !.saved = Some(file.content),
                                            !.download = Some(file.content)]
                    /\ fs' = d.files \ {file}
            /\ UNCHANGED <<lastreg, th>>

Next == TranscribeSpeech \/ CreateDownloadFile \/ Main

Spec == Init /\ [][Next]_vars

(***************************************************************************)
(* The registry being changed after construction.  The class has no        *)
(* register method; recognition_apis is a plain dict attribute, and        *)
(* register(backendId, fn) is the assignment                               *)
(* recognition_apis[backendId] = fn.                                       *)
(***************************************************************************)
register(self, backendId, fn) ==
    [self EXCEPT !.recognition_apis =
        [k \in DOMAIN @ \cup {backendId} |-> IF k = backendId THEN fn ELSE @[k]]]

Register ==
    \E backendId \in ApiChoices, fn \in BackendFunctions :
        /\ app' = register(app, backendId, fn)
        /\ lastreg' = [lastreg EXCEPT ![backendId] = fn]
        /\ op' = [NoOp EXCEPT !.name = "register",
                              !.api_choice = backendId,
                              !.fn = fn]
        /\ UNCHANGED <<fs, th>>

NextReg == Register \/ TranscribeSpeech

SpecReg == Init /\ [][NextReg]_vars

(***************************************************************************)
(* Threads calling transcribe_speech on one object, a step per statement.  *)
(* A thread's capture is what the microphone and the recogniser will do    *)
(* for it.                                                                 *)
(***************************************************************************)
\* The call begins: with sr.Microphone() as source (line 46).
Call(t) ==
    \E api_choice \in ApiChoices, language_choice \in LanguageChoices,
       capture \in CaptureOutcomes :
        /\ th[t].pc = "idle"
        /\ th' = [th EXCEPT ![t] = [IdleThread EXCEPT
                                        !.pc = "microphone",
                                        !.api_choice = api_choice,
                                        !.language_choice = language_choice,
                                        !.capture = capture]]
        /\ UNCHANGED <<app, fs, op, lastreg>>

\* Lines 46-50: a failure here is outside the try block.
Microphone(t) ==
    /\ th[t].pc = "microphone"
    /\ th' = [th EXCEPT ![t] =
                IF th[t].capture.stage = "Microphone"
                THEN [@ EXCEPT !.pc = "raised", !.ret = Raise(Exc(th[t].capture))]
                ELSE [@ EXCEPT !.pc = "listen"]]
    /\ UNCHANGED <<app, fs, op, lastreg>>

\* Line 54: audio = self.recognizer.listen(...)
Listen(t) ==
    /\ th[t].pc = "listen"
    /\ th' = [th EXCEPT ![t] =
                IF th[t].capture.stage = "listen"
                THEN [@ EXCEPT !.pc = "handled",
                               !.ret = except_handlers(Exc(th[t].capture))]
                ELSE [@ EXCEPT !.pc = "resolve"]]
    /\ UNCHANGED <<app, fs, op, lastreg>>

\* Line 59: recognition_method = self.recognition_apis.get(...)
Resolve(t) ==
    /\ th[t].pc = "resolve"
    /\ LET r == resolve(app, th[t].api_choice)
       IN  th' = [th EXCEPT ![t] =
                    IF r.raised
                    THEN [@ EXCEPT !.pc = "handled", !.ret = except_handlers(r.exc)]
                    ELSE [@ EXCEPT !.pc = "invoke", !.fn = r.fn]]
    /\ UNCHANGED <<app, fs, op, lastreg>>

\* Line 60: text = recognition_method(audio, self.languages.get(...))
Invoke(t) ==
    /\ th[t].pc = "invoke"
    /\ LET b == invoke(app, th[t].fn, th[t].capture,
                       language_tag(app, th[t].language_choice))
       IN  th' = [th EXCEPT ![t] =
                    IF b.raised
                    THEN [@ EXCEPT !.pc = "handled", !.ret = except_handlers(b.exc)]
                    ELSE [@ EXCEPT !.pc = "store", !.text = b.value]]
    /\ UNCHANGED <<app, fs, op, lastreg>>

\* Line 63: self.last_transcription = text
Store(t) ==
    /\ th[t].pc = "store"
    /\ app' = store(app, th[t].text)
    /\ th' = [th EXCEPT ![t].pc = "return"]
    /\ UNCHANGED <<fs, op, lastreg>>

\* Line 65: return text
ReturnText(t) ==
    /\ th[t].pc = "return"
    /\ th' = [th EXCEPT ![t].pc = "returned",
                        ![t].ret = Return(return_text(app, th[t].text))]
    /\ UNCHANGED <<app, fs, op, lastreg>>

NextConc ==
    \E t \in Threads :
        \/ Call(t)
        \/ Microphone(t)
        \/ Listen(t)
        \/ Resolve(t)
        \/ Invoke(t)
        \/ Store(t)
        \/ ReturnText(t)

SpecConc == Init /\ [][NextConc]_vars

(***************************************************************************)
(* Properties of transcribe_speech and the backends.                       *)
(***************************************************************************)
\* The last operation ran transcribe_speech (directly or from main).
Transcribed == op.name \in {"transcribe_speech", "main"}

\* ... and listen() handed it a sample, so that it went on to dispatch.
Dispatched == Transcribed /\ op.capture.stage = "audio"

\* The name of the engine behind a backend function, as its messages spell
\* it: the registry's label without its "(Offline)" qualifier.
BackendName(fn) ==
    IF fn = "recognize_with_google" THEN "Google Speech Recognition" ELSE "Sphinx"

\* C1: whatever the backend does with the sample (a transcript,
\* UnknownValueError, RequestError or any other exception), the dispatch
\* step of transcribe_speech returns a text and raises nothing.
C1_DispatchAlwaysReturnsText ==
    Dispatched => /\ ~op.result.raised
                  /\ op.result.exc = NoExc
                  /\ op.result.value \in STRING

C1_Witness ==
    /\ op.name = "transcribe_speech"
    /\ op.capture.stage = "audio"
    /\ op.capture.type = "TimeoutError"
    /\ op.backend.raised
    /\ op.result = Return("An unexpected error occurred: The read operation timed out")

\* C2: a backend id that is not a key of the registry is dispatched to
\* recognize_with_google and the call returns that backend's text; it never
\* ends in an unknown-backend (KeyError) failure.
C2_UnknownIdFallsBackToGoogle ==
    (Dispatched /\ op.api_choice \notin DOMAIN app.recognition_apis) =>
        /\ op.invoked = "recognize_with_google"
        /\ ~op.result.raised
        /\ ~op.backend.raised => op.result.value = op.backend.value
        /\ op.result.value #
              "An unexpected error occurred: " \o "'" \o op.api_choice \o "'"

C2_Witness ==
    /\ op.name = "transcribe_speech"
    /\ op.api_choice = "Whisper"
    /\ op.capture.stage = "audio"
    /\ op.capture.type = "UnknownValueError"
    /\ op.invoked = "recognize_with_google"
    /\ op.result = Return("Google Speech Recognition could not understand the audio")

\* C3: when the recogniser of a registered backend raises UnknownValueError,
\* the call returns exactly "<BackendName> could not understand the audio",
\* with the name of the backend that was invoked.
C3_UnintelligibleText ==
    (Dispatched /\ op.api_choice \in DOMAIN app.recognition_apis
                /\ op.capture.type = "UnknownValueError") =>
        /\ op.invoked = app.recognition_apis[op.api_choice]
        /\ op.result = Return(BackendName(op.invoked)
                              \o " could not understand the audio")

C3_Witness ==
    /\ op.name = "transcribe_speech"
    /\ op.api_choice = "Sphinx (Offline)"
    /\ op.capture.type = "UnknownValueError"
    /\ op.invoked = "recognize_with_sphinx"
    /\ op.result = Return("Sphinx could not understand the audio")

\* C4 as stated: on RequestError with diagnostic d every registered backend
\* returns "Could not request results from <BackendName>: <d>".
C4_OneTemplate ==
    (Dispatched /\ op.api_choice \in DOMAIN app.recognition_apis
                /\ op.capture.type = "RequestError") =>
        op.result = Return("Could not request results from "
                           \o BackendName(op.invoked) \o ": " \o op.capture.msg)

\* C4 amended: on RequestError with diagnostic d the Google backend returns
\* "Could not request results from Google Speech Recognition service; <d>"
\* and the Sphinx backend "Sphinx error: <d>": two templates, and in both the
\* text contains the backend's name and d.
C4_TextHasNameAndDiagnostic ==
    (Dispatched /\ op.api_choice \in DOMAIN app.recognition_apis
                /\ op.capture.type = "RequestError") =>
        /\ ~op.result.raised
        /\ Contains(op.result.value, BackendName(op.invoked))
        /\ Contains(op.result.value, op.capture.msg)
        /\ op.invoked = "recognize_with_google" =>
              op.result.value =
                 "Could not request results from Google Speech Recognition service; "
                 \o op.capture.msg
        /\ op.invoked = "recognize_with_sphinx" =>
              op.result.value = "Sphinx error: " \o op.capture.msg

C4_Witness ==
    /\ op.name = "transcribe_speech"
    /\ op.api_choice = "Google Speech Recognition"
    /\ op.capture.type = "RequestError"
    /\ op.capture.msg = "recognition connection failed: timed out"
    /\ op.invoked = "recognize_with_google"
    /\ Contains(op.result.value, "recognition connection failed: timed out")
    /\ Contains(op.result.value, "Google Speech Recognition")

\* C7: a call's outcome does not depend on what earlier calls left in the
\* object: after any sequence of calls it is the outcome the same arguments
\* and sample have on a freshly constructed object, so two calls with the
\* same arguments and sample return the same text.
C7_NoHiddenState ==
    op.name = "transcribe_speech" =>
        op.result = transcribe_speech(NewApp, op.api_choice, op.language_choice,
                                      op.capture).result

C7_Witness ==
    /\ op.name = "transcribe_speech"
    /\ op.capture.type = "text"
    /\ op.invoked = "recognize_with_google"
    /\ op.before # ""
    /\ op.before # op.result.value
    /\ op.result = Return("hello world")

\* C10 as stated: no exception ever leaves a backend function.
C10_BackendNeverRaises ==
    (Transcribed /\ op.invoked # "") => ~op.backend.raised

\* C10 amended: a backend function absorbs UnknownValueError and
\* RequestError, returning their text; any other exception of the recogniser
\* leaves the backend function and is absorbed by transcribe_speech, which
\* returns "An unexpected error occurred: <message>".
C10_BackendAbsorbsTwoKinds ==
    (Transcribed /\ op.invoked # "") =>
        /\ op.backend.raised <=>
              op.capture.type \notin {"text", "UnknownValueError", "RequestError"}
        /\ op.backend.raised =>
              /\ op.backend.exc = Exc(op.capture)
              /\ op.result = Return("An unexpected error occurred: " \o op.capture.msg)
        /\ ~op.backend.raised => op.result = op.backend

C10_Witness ==
    /\ op.name = "transcribe_speech"
    /\ op.invoked = "recognize_with_sphinx"
    /\ op.capture.type = "TimeoutError"
    /\ op.backend.raised
    /\ op.backend.exc.type = "TimeoutError"
    /\ ~op.result.raised

(***************************************************************************)
(* Properties of create_download_file and main.                            *)
(***************************************************************************)
\* The last operation called create_download_file (directly or from main).
Saved ==
    \/ op.name = "create_download_file"
    \/ op.name = "main" /\ ~op.result.raised

\* C5: create_download_file called with the sentinel text or with the empty
\* text returns None and leaves the files on disk as they were.
C5_SentinelIsNotSaved ==
    [][ (Saved /\ op.text \in {"", "No speech detected. Time limit exceeded."})'
            => (op.path = 0 /\ op.saved = None /\ op.warning)' /\ fs' = fs ]_vars

C5_Witness ==
    /\ op.name = "create_download_file"
    /\ op.text = "No speech detected. Time limit exceeded."
    /\ op.path = 0
    /\ op.warning

\* The run of main ended in one of the failures transcribe_speech turns into
\* text: UnknownValueError, RequestError, WaitTimeoutError or another error.
MainFailed ==
    /\ op.name = "main"
    /\ ~op.result.raised
    /\ op.capture.stage = "listen" \/ op.capture.type # "text"

\* C6: whenever transcribe_speech ends in a failure, main displays the error
\* text but writes no file and offers no download.
C6_ErrorTextNeverPersisted ==
    MainFailed => /\ op.displayed = Some(op.result.value)
                  /\ op.saved = None
                  /\ op.download = None

(***************************************************************************)
(* Properties of the registry.                                             *)
(***************************************************************************)
\* The function a backend id stands for, from the calls of register alone.
Registered(id) ==
    IF lastreg[id] # "" THEN lastreg[id]
    ELSE IF id \in DOMAIN InitialApis THEN InitialApis[id]
    ELSE "recognize_with_google"

\* C8: registering a function under an id replaces the earlier mapping and
\* leaves the other ids' mappings alone, and every later dispatch with that
\* id invokes the function registered last, never an earlier one.
C8_RegisterReplaces ==
    /\ [](Dispatched => op.invoked = Registered(op.api_choice))
    /\ [][ (op.name = "register")' =>
             /\ DOMAIN app'.recognition_apis =
                    DOMAIN app.recognition_apis \cup {op'.api_choice}
             /\ app'.recognition_apis[op'.api_choice] = op'.fn
             /\ \A k \in DOMAIN app.recognition_apis \ {op'.api_choice} :
                    app'.recognition_apis[k] = app.recognition_apis[k] ]_vars

C8_Witness ==
    /\ op.name = "transcribe_speech"
    /\ op.api_choice = "Sphinx (Offline)"
    /\ lastreg["Sphinx (Offline)"] = "recognize_with_google"
    /\ lastreg["Google Speech Recognition"] = "recognize_with_sphinx"
    /\ op.capture.type = "UnknownValueError"
    /\ op.invoked = "recognize_with_google"
    /\ op.result = Return("Google Speech Recognition could not understand the audio")

(***************************************************************************)
(* Properties of concurrent calls.                                         *)
(***************************************************************************)
Done(t) == th[t].pc \in {"returned", "handled", "raised"}

\* The thread has executed line 63.
Stored(t) == th[t].pc \in {"return", "returned"}

\* What the thread's call returns when it runs alone on a new object.
OwnOutcome(t) ==
    transcribe_speech(NewApp, th[t].api_choice, th[t].language_choice,
                      th[t].capture).result

\* C9 as stated: no shared variable of the object is written, so after two
\* concurrent calls the object is as it was before them and each call has
\* returned the outcome of its own sample.
C9_NoSharedWrite ==
    (\A t \in Threads : Done(t)) =>
        /\ app = NewApp
        /\ \A t \in Threads : th[t].ret = OwnOutcome(t)

\* C9 amended: the registry and the language table are only read; the one
\* attribute written is last_transcription, set at line 63 to the text of
\* the call.  Under every interleaving the registry and the language table
\* stay as constructed, each call returns the outcome of its own sample, and
\* last_transcription is the text of one of the calls that stored (or still
\* empty when none has).
C9_OnlyLastTranscriptionWritten ==
    /\ app.recognition_apis = InitialApis
    /\ app.languages = InitialLanguages
    /\ \A t \in Threads : Done(t) => th[t].ret = OwnOutcome(t)
    /\ IF \E t \in Threads : Stored(t)
       THEN app.last_transcription \in {th[t].text : t \in {u \in Threads : Stored(u)}}
       ELSE app.last_transcription = ""

C9_Witness ==
    /\ \A t \in Threads : th[t].pc = "returned"
    /\ th["t1"].ret = Return("hello world")
    /\ th["t2"].ret = Return("Sphinx could not understand the audio")
    /\ app.last_transcription = "hello world"

=============================================================================
